---- MODULE Spec2Model ----
(***************************************************************************)
(* The recurrent agents of hive/agents: DRQNAgent (drqn.py, the baseline   *)
(* variant) and DRQNhiddenAgent (drqn_hidden.py, the variant that stores   *)
(* the hidden/cell state with every transition), driven by an environment  *)
(* loop that calls act() and update() alternately.                         *)
(*                                                                         *)
(* Tensors are abstracted to small integers: a hidden state is a pair      *)
(* <<h, c>> with <<0, 0>> the zero state, the parameters of a network are  *)
(* one integer, epsilon and rng.random() are counted in units of           *)
(* 1/EpsScale.  The schedules, the replay buffer, the network and          *)
(* DQNAgent._update_target are collaborators whose code is not part of     *)
(* the sources at hand; they are modelled from their documented contract.  *)
(***************************************************************************)
EXTENDS Integers, Sequences, FiniteSets, TLC

(* ------------------------------ bounds -------------------------------- *)

\* Environment steps (act/update pairs) of one run.
MaxSteps == 3
\* Raw rewards are drawn from {-MaxReward, 0, MaxReward}.
MaxReward == 2
SoftScale == 10
CtorChoices == 5
SampleLen == 4
DiscountScale == 2
MaxRuns == 10
MaxOverfitRuns == 4
discount_rate == 1

(* ------------------- configuration of the agent ----------------------- *)

act_dim == 2
batch_size == 2
max_seq_len == 2
capacity == 2
update_period == 2
target_period == 2
\* The value of reward_clip when it is configured.
clip_value == 1
\* Resolution of epsilon and of rng.random(): 1.0 is EpsScale units.
EpsScale == 2
test_epsilon == 1
\* The value the epsilon schedule starts from (0.5).
epsilon_init == 1
\* Hidden and cell values live in 0..HiddenMod-1.
HiddenMod == 3

\* The agent's code never looks into an observation: one value stands for all.
Obs == { 0 }
\* The values of min_replay_history the agent is configured with.
HistoryChoices == { 1, 3 }
Rewards == { 0 - MaxReward, 0, MaxReward }
Actions == 0..(act_dim - 1)
SampleStarts == 1..(capacity - max_seq_len + 1)
Snapshots == [ hidden_state : 0..(HiddenMod - 1), cell_state : 0..1 ]
Params == { 0, 1 }
Variants == {"DRQNAgent", "DRQNhiddenAgent"}

Max(a, b) == IF a >= b THEN a ELSE b
Min(a, b) == IF a <= b THEN a ELSE b

(* ---------------------------- collaborators --------------------------- *)

\* init_hidden(batch_size=1): the zero hidden and cell state.
init_hidden == <<0, 0>>

\* One recurrent forward step of the online network on (observation, hidden).
lstm_forward(q, observation, hidden) ==
    << (hidden[1] + observation + q + 1) % HiddenMod, (hidden[2] + 1) % HiddenMod >>

\* The Q-values the head returns, one per action.
qvals_of(q, observation, hidden) ==
    [a \in 1..act_dim |-> (q + hidden[1] + hidden[2] + a * (observation + 1)) % HiddenMod]

\* An argmax that counts its indices from 1.
argmax_from_one(qvals) ==
    CHOOSE i \in DOMAIN qvals :
        /\ \A j \in DOMAIN qvals : qvals[j] <= qvals[i]
        /\ \A j \in DOMAIN qvals : j < i => qvals[j] < qvals[i]

\* torch.argmax: the first index of the maximum, counted from 0.
argmax(qvals) ==
    (CHOOSE i \in DOMAIN qvals :
        /\ \A j \in DOMAIN qvals : qvals[j] <= qvals[i]
        /\ \A j \in DOMAIN qvals : j < i => qvals[j] < qvals[i]) - 1

\* SwitchSchedule(False, True, min_replay_history): a step counter and the
\* step at which it flips.
SwitchInit(flip_step) == [ steps |-> 0, flip_step |-> flip_step ]
SwitchValue(s) == s.steps >= s.flip_step
SwitchUpdate(s) == [ s EXCEPT !.steps = s.steps + 1 ]

\* PeriodicSchedule(False, True, period): a counter kept modulo its period,
\* on once every period calls of update(), the first call included.
PeriodicInit(period) == period - 1
PeriodicUpdate(steps, period) == (steps + 1) % period
PeriodicValue(steps) == steps = 0

\* The epsilon schedule: a value that decays by one unit per update().
EpsilonUpdate(value) == Max(value - 1, 0)

\* The replay buffer: add() appends and drops the oldest entry when full,
\* size() counts the windows of max_seq_len transitions it can serve.
ReplayAdd(buffer, item) ==
    IF Len(buffer) < capacity THEN Append(buffer, item)
    ELSE Append(Tail(buffer), item)
ReplaySize(buffer) == Max(Len(buffer) - max_seq_len + 1, 0)

\* sample(): one sampled sequence, the max_seq_len transitions from index start.
ReplayWindow(buffer, start) ==
    [k \in 1..max_seq_len |-> buffer[start + k - 1]]

\* DQNAgent._update_target with target_net_soft_update = False.
update_target(q, t) == q

\* A soft update that gives the weight f to the target parameter.
soft_update_target_swapped(q, t, f) == f * t + (SoftScale - f) * q

\* DQNAgent._update_target with target_net_soft_update = True, for one
\* parameter: q and t are in units of 1/SoftScale, the fraction f too, the
\* result is in units of 1/SoftScale^2.
soft_update_target(q, t, f) == (SoftScale - f) * t + f * q

\* sample() with the next_ fields of hidden-state storage: timestep k of a
\* sampled sequence carries its own stored snapshot and, as next_hidden_state
\* and next_cell_state, the snapshot stored with the transition after it.
ReplaySampleNext(buffer, start) ==
    [k \in 1..max_seq_len |->
        [ hidden_state |-> buffer[start + k - 1].hidden_state,
          cell_state |-> buffer[start + k - 1].cell_state,
          next_hidden_state |-> buffer[start + k].hidden_state,
          next_cell_state |-> buffer[start + k].cell_state ]]

(* ------------------------------- state -------------------------------- *)

VARIABLES
    variant,                    \* the class of the agent under test
    reward_clip,                \* <<>> for None, <<c>> for reward_clip = c
    training,                   \* self._training
    hidden_state,               \* self._hidden_state, the live state (batch 1)
    prev_hidden_state,          \* self._prev_hidden_state (-1: not yet set)
    prev_cell_state,            \* self._prev_cell_state (-1: not yet set)
    episode_start,              \* self._state["episode_start"]
    replay_buffer,              \* self._replay_buffer: [items, num_added]
    learn_schedule,             \* self._learn_schedule
    update_period_schedule,     \* self._update_period_schedule
    target_net_update_schedule, \* self._target_net_update_schedule
    epsilon_schedule,           \* self._epsilon_schedule
    qnet,                       \* parameters of self._qnet
    target_qnet,                \* parameters of self._target_qnet
    pc,                         \* the environment loop: "act" or "update" is next
    env,                        \* the step in flight: observation acted on, action returned
    steps,                      \* environment steps started
    entry_hidden,               \* history: the live state on entry to the last act()
    calls,                      \* history: counts of calls and of their effects
    last,                       \* history: what the last act()/update() call did
    aux                         \* the inputs and results of the side specifications

vars == << variant, reward_clip, training, hidden_state, prev_hidden_state,
           prev_cell_state, episode_start, replay_buffer, learn_schedule,
           update_period_schedule, target_net_update_schedule, epsilon_schedule,
           qnet, target_qnet, pc, env, steps, entry_hidden, calls, last, aux >>

\* The variables of the agent and of its environment loop.
agent_vars == << variant, reward_clip, training, hidden_state, prev_hidden_state,
                 prev_cell_state, episode_start, replay_buffer, learn_schedule,
                 update_period_schedule, target_net_update_schedule,
                 epsilon_schedule, qnet, target_qnet, pc, env, steps, entry_hidden,
                 calls, last >>

\* aux when no side specification runs.
NoAux == [ kind |-> "none" ]

\* The record of a call, before any call was made.
NoCall ==
    [ op |-> "none", training |-> FALSE, done |-> FALSE, ready |-> FALSE,
      epsilon |-> 0, random |-> FALSE, should_log |-> FALSE, fresh |-> FALSE, drawn |-> 0, greedy |-> 0,
      added |-> FALSE, reward_in |-> 0, size |-> 0,
      size_read |-> FALSE, period_called |-> FALSE, period_fired |-> FALSE,
      sampled |-> FALSE, raised |-> FALSE, trained |-> FALSE,
      target_called |-> FALSE, target_fired |-> FALSE ]

(* ------------------------- the agents' own code ----------------------- *)

\* np.clip(x, lo, hi) = minimum(maximum(x, lo), hi).
np_clip(x, lo, hi) == Min(Max(x, lo), hi)

\* A clip that forgets the lower bound.
clip_reward_upper_only(reward, rclip) ==
    IF rclip # <<>> THEN Min(reward, rclip[1]) ELSE reward

\* The reward as preprocess_update_info stores it.
clip_reward(reward, rclip) ==
    IF rclip # <<>> THEN np_clip(reward, 0 - rclip[1], rclip[1]) ELSE reward

DRQNAgent_preprocess_update_info(update_info, rclip) ==
    [ observation |-> update_info.observation,
      action |-> update_info.action,
      reward |-> clip_reward(update_info.reward, rclip),
      done |-> update_info.done ]

\* A preprocess_update_info that stores the zero state with every transition.
DRQNhiddenAgent_preprocess_update_info_zero(update_info, rclip, prev_h, prev_c) ==
    [ observation |-> update_info.observation,
      action |-> update_info.action,
      reward |-> clip_reward(update_info.reward, rclip),
      done |-> update_info.done,
      hidden_state |-> init_hidden[1],
      cell_state |-> init_hidden[2] ]

DRQNhiddenAgent_preprocess_update_info(update_info, rclip, prev_h, prev_c) ==
    [ observation |-> update_info.observation,
      action |-> update_info.action,
      reward |-> clip_reward(update_info.reward, rclip),
      done |-> update_info.done,
      hidden_state |-> prev_h,
      cell_state |-> prev_c ]

\* An act() that follows the epsilon schedule before learning has started.
act_epsilon_no_floor(train, ready, eps_next) ==
    IF train THEN eps_next ELSE test_epsilon

\* The epsilon act() uses; eps_next is what epsilon_schedule.update() returns.
act_epsilon(train, ready, eps_next) ==
    IF train
    THEN IF ~ready THEN EpsScale ELSE eps_next
    ELSE test_epsilon

\* An epsilon schedule advanced by every training-mode act().
act_epsilon_schedule_in_training(train, ready, value) ==
    IF train THEN EpsilonUpdate(value) ELSE value

\* The epsilon schedule after act(): self._epsilon_schedule.update() runs only
\* in training mode once the learn-start schedule is on.
act_epsilon_schedule(train, ready, value) ==
    IF train /\ ready THEN EpsilonUpdate(value) ELSE value

\* An act() that clears the flag in evaluation mode too.
act_episode_start_any_mode(train, should_log, flag) ==
    IF should_log /\ flag THEN FALSE ELSE flag

\* The episode_start flag after act(): cleared with the train_qval log.
act_episode_start(train, should_log, flag) ==
    IF train /\ should_log /\ flag THEN FALSE ELSE flag

\* if update_info["done"]: self._state["episode_start"] = True
update_episode_start(done, flag) == IF done THEN TRUE ELSE flag

\* A snapshot taken after the forward pass instead of before it.
act_snapshot_after(before, after) == after

\* What DRQNhiddenAgent.act keeps in _prev_hidden_state/_prev_cell_state,
\* given the live state before and after its forward pass.
act_snapshot(before, after) == before

\* An act() that keeps the old live state when it explores.
act_hidden_greedy_only(random, hidden, forward_hidden) ==
    IF random THEN hidden ELSE forward_hidden

\* qvals, self._hidden_state = self._qnet(observation, self._hidden_state):
\* the live state after act(), whichever branch then picks the action.
act_hidden(random, hidden, forward_hidden) == forward_hidden

\* An update() that resets the live state only in training mode.
update_hidden_on_done_if_training(done, hidden) ==
    IF done /\ training THEN init_hidden ELSE hidden

\* An update() that forgets to reset the live state.
update_hidden_no_reset(done, hidden) == hidden

\* The live state after the done branch of DRQNhiddenAgent.update.
update_hidden_on_done(done, hidden) == IF done THEN init_hidden ELSE hidden

\* An update() without its early return.
update_proceeds_always(train) == TRUE

\* update() goes on to store and learn only in training mode.
update_proceeds(train) == train

\* An update() that does not store the transition that ends an episode.
update_add_unless_done(buffer, item) ==
    IF item.done THEN buffer
    ELSE [ items |-> ReplayAdd(buffer.items, item),
           num_added |-> buffer.num_added + 1 ]

\* self._replay_buffer.add(**self.preprocess_update_info(update_info))
update_add(buffer, item) ==
    [ items |-> ReplayAdd(buffer.items, item), num_added |-> buffer.num_added + 1 ]

\* A gate that evaluates its three conditions without short-circuit.
update_gate_eager(ready, size, period_steps) ==
    [ train |-> ready /\ size > 0
                /\ PeriodicValue(PeriodicUpdate(period_steps, update_period)),
      size_read |-> TRUE, period_called |-> TRUE,
      period_steps |-> PeriodicUpdate(period_steps, update_period) ]

\* A gate without the size() > 0 condition.
update_gate_no_size(ready, size, period_steps) ==
    IF ~ready
    THEN [ train |-> FALSE, size_read |-> FALSE, period_called |-> FALSE,
           period_steps |-> period_steps ]
    ELSE [ train |-> PeriodicValue(PeriodicUpdate(period_steps, update_period)),
           size_read |-> FALSE, period_called |-> TRUE,
           period_steps |-> PeriodicUpdate(period_steps, update_period) ]

\* A gate without the learn-start condition.
update_gate_no_learn(ready, size, period_steps) ==
    IF ~(size > 0)
    THEN [ train |-> FALSE, size_read |-> TRUE, period_called |-> FALSE,
           period_steps |-> period_steps ]
    ELSE [ train |-> PeriodicValue(PeriodicUpdate(period_steps, update_period)),
           size_read |-> TRUE, period_called |-> TRUE,
           period_steps |-> PeriodicUpdate(period_steps, update_period) ]

\* The gating condition of update(), evaluated left to right: size() is read
\* only when the learn-start schedule is on, the update-period schedule is
\* advanced only when both hold.
update_gate(ready, size, period_steps) ==
    IF ~ready
    THEN [ train |-> FALSE, size_read |-> FALSE, period_called |-> FALSE,
           period_steps |-> period_steps ]
    ELSE IF ~(size > 0)
    THEN [ train |-> FALSE, size_read |-> TRUE, period_called |-> FALSE,
           period_steps |-> period_steps ]
    ELSE [ train |-> PeriodicValue(PeriodicUpdate(period_steps, update_period)),
           size_read |-> TRUE, period_called |-> TRUE,
           period_steps |-> PeriodicUpdate(period_steps, update_period) ]

\* The initial state DRQNAgent.update gives the networks for a sampled
\* sequence: init_hidden(batch_size), zeros.
DRQNAgent_train_hidden(sequence) == init_hidden

\* A training step that starts from the last timestep's snapshot.
DRQNhiddenAgent_train_hidden_last(sequence) ==
    << sequence[Len(sequence)].hidden_state, sequence[Len(sequence)].cell_state >>

\* The initial state DRQNhiddenAgent.update gives the online network for a
\* sampled sequence: batch["hidden_state"][:, 0], batch["cell_state"][:, 0].
DRQNhiddenAgent_train_hidden(sequence) ==
    << sequence[1].hidden_state, sequence[1].cell_state >>

\* The initial state DRQNhiddenAgent.update gives the target network for a
\* sampled sequence: batch["next_hidden_state"][:, 0],
\* batch["next_cell_state"][:, 0].
DRQNhiddenAgent_train_target_hidden(sequence) ==
    << sequence[1].next_hidden_state, sequence[1].next_cell_state >>

\* A maximum over the online network's values.
update_next_qvals_online(online_qvals, target_qvals) == online_qvals

\* next_qvals, target_hidden_state = self._target_qnet(*next_state_inputs,
\* target_hidden_state): the next-state values are the target network's.
update_next_qvals(online_qvals, target_qvals) == target_qvals

\* torch.max(next_qvals, dim=-1): the largest value over the actions.
max_over_actions(qvals) ==
    CHOOSE m \in { qvals[a] : a \in DOMAIN qvals } :
        \A a \in DOMAIN qvals : qvals[a] <= m

\* q_targets = batch["reward"] + self._discount_rate * next_qvals
\* * (1 - batch["done"]), for one position, in units of 1/DiscountScale
\* (discount_rate is in the same units; done is 0 or 1).
q_targets(reward, done, next_qval) ==
    DiscountScale * reward + discount_rate * next_qval * (1 - done)

\* A training step that writes the state its forward pass returns into the
\* live state.
train_live_hidden_written(live, returned) == returned

\* pred_qvals, hidden_state = self._qnet(...): the returned state goes to a
\* local variable, self._hidden_state keeps its value.
train_live_hidden(live, returned) == live

\* A target-update schedule advanced only inside the training step.
update_target_schedule_if_trained(trained, target_steps) ==
    IF trained THEN PeriodicUpdate(target_steps, target_period) ELSE target_steps

\* self._target_net_update_schedule.update(), after the training block and
\* outside it.
update_target_schedule(trained, target_steps) ==
    PeriodicUpdate(target_steps, target_period)

\* A training step whose backward pass and optimizer step sit in the else
\* branch of the train_loss log.
update_backward_unless_logged(should_log, loss_computed) ==
    loss_computed /\ ~should_log

\* if self._logger.should_log(...): log_scalar("train_loss", ...) is followed
\* by loss.backward() and optimizer.step() whatever the logger answered.
update_backward(should_log, loss_computed) == loss_computed

\* An optimizer that also steps the target network.
optimizer_step_both(q, t, q_new) == << q_new, q_new >>

\* loss.backward(); optimizer.step(): the online parameters move to q_new, the
\* target network (requires_grad_(False), not the optimizer's) stays.
optimizer_step(q, t, q_new) == << q_new, t >>

\* A schedule that fires without the target network being touched.
update_sync_target_never(fires, q, t) == t

\* if self._target_net_update_schedule.update(): self._update_target()
update_sync_target(fires, q, t) == IF fires THEN update_target(q, t) ELSE t

(* ------------------------------ operations ---------------------------- *)

\* The state after construction: create_q_networks zeroes the live hidden state
\* and deep-copies the online network into the target network.
AgentInit ==
    /\ variant \in Variants
    /\ reward_clip \in { <<>>, <<clip_value>> }
    /\ training = TRUE
    /\ hidden_state = <<0, 0>>
    /\ prev_hidden_state = -1
    /\ prev_cell_state = -1
    /\ episode_start = TRUE
    /\ replay_buffer = [ items |-> <<>>, num_added |-> 0 ]
    /\ \E min_replay_history \in HistoryChoices :
           learn_schedule = SwitchInit(min_replay_history)
    /\ update_period_schedule = PeriodicInit(update_period)
    /\ target_net_update_schedule = PeriodicInit(target_period)
    /\ epsilon_schedule = epsilon_init
    /\ qnet = 0
    /\ target_qnet = qnet
    /\ pc = "act"
    /\ env = [ observation |-> 0, action |-> 0 ]
    /\ steps = 0
    /\ entry_hidden = <<0, 0>>
    /\ calls = [ updates |-> 0, trained |-> 0, period_fired |-> 0 ]
    /\ last = NoCall

Init ==
    /\ AgentInit
    /\ aux = NoAux

\* Agent.train() / Agent.eval(): the mode flag flips between environment steps.
SetTraining ==
    /\ pc = "act"
    /\ training' = ~training
    /\ UNCHANGED << variant, reward_clip, hidden_state, prev_hidden_state,
                    prev_cell_state, episode_start, replay_buffer, learn_schedule,
                    update_period_schedule, target_net_update_schedule,
                    epsilon_schedule, qnet, target_qnet, pc, env, steps,
                    entry_hidden, calls, last >>

\* The body the two act() methods share.  u is rng.random() in units of
\* 1/EpsScale, r is rng.integers(act_dim), should_log the logger's answer.
act_body(observation, u, r, should_log) ==
    LET ready == SwitchValue(learn_schedule)
        eps1 == act_epsilon_schedule(training, ready, epsilon_schedule)
        epsilon == act_epsilon(training, ready, eps1)
        qvals == qvals_of(qnet, observation, hidden_state)
        action == IF u < epsilon THEN r ELSE argmax(qvals)
    IN  /\ epsilon_schedule' = eps1
        /\ hidden_state' = act_hidden(u < epsilon, hidden_state,
                                      lstm_forward(qnet, observation, hidden_state))
        /\ episode_start' = act_episode_start(training, should_log, episode_start)
        /\ env' = [ observation |-> observation, action |-> action ]
        /\ pc' = "update"
        /\ steps' = steps + 1
        /\ entry_hidden' = hidden_state
        /\ last' = [ NoCall EXCEPT !.op = "act", !.training = training,
                                   !.ready = ready, !.epsilon = epsilon,
                                   !.random = (u < epsilon),
                                   !.should_log = should_log,
                                   !.fresh = (last.op = "none"
                                              \/ (last.op = "update" /\ last.done)),
                                   !.drawn = (IF u < epsilon THEN r ELSE 0),
                                   !.greedy = argmax(qvals) ]
        /\ UNCHANGED << variant, reward_clip, training, replay_buffer,
                        learn_schedule, update_period_schedule,
                        target_net_update_schedule, qnet, target_qnet, calls >>

\* DRQNAgent.act(observation) with the draws and the logger's answer given.
DRQNAgent_act_call(observation, u, r, should_log) ==
    /\ act_body(observation, u, r, should_log)
    /\ UNCHANGED << prev_hidden_state, prev_cell_state >>

DRQNAgent_act ==
    /\ variant = "DRQNAgent"
    /\ pc = "act"
    /\ steps < MaxSteps
    /\ \E observation \in Obs, u \in 0..(EpsScale - 1), r \in Actions,
          should_log \in BOOLEAN :
            DRQNAgent_act_call(observation, u, r, should_log)

DRQNhiddenAgent_act ==
    /\ variant = "DRQNhiddenAgent"
    /\ pc = "act"
    /\ steps < MaxSteps
    /\ \E observation \in Obs, u \in 0..(EpsScale - 1), r \in Actions,
          should_log \in BOOLEAN :
            /\ prev_hidden_state' =
                   act_snapshot(hidden_state,
                                lstm_forward(qnet, observation, hidden_state))[1]
            /\ prev_cell_state' =
                   act_snapshot(hidden_state,
                                lstm_forward(qnet, observation, hidden_state))[2]
            /\ act_body(observation, u, r, should_log)

\* The body the two update() methods share after their done branch: item is
\* the preprocessed transition, q_new the parameters an optimizer step leaves.
update_body(update_info, item, live, start, q_new, should_log) ==
    IF ~update_proceeds(training)
    THEN /\ hidden_state' = live
         /\ last' = [ NoCall EXCEPT !.op = "update", !.training = training,
                                    !.done = update_info.done,
                                    !.reward_in = update_info.reward ]
         /\ UNCHANGED << replay_buffer, learn_schedule, update_period_schedule,
                         target_net_update_schedule, qnet, target_qnet, calls >>
    ELSE LET buffer1 == update_add(replay_buffer, item)
             learn1 == SwitchUpdate(learn_schedule)
             ready == SwitchValue(learn1)
             size == ReplaySize(buffer1.items)
             g == update_gate(ready, size, update_period_schedule)
             \* sample() on a buffer with no sequence-ready unit fails
             raised == g.train /\ size = 0
             trains == update_backward(should_log, g.train /\ ~raised)
             nets == IF trains THEN optimizer_step(qnet, target_qnet, q_new)
                     ELSE << qnet, target_qnet >>
             sequence == ReplayWindow(buffer1.items, start)
             train_hidden == IF variant = "DRQNAgent"
                             THEN DRQNAgent_train_hidden(sequence)
                             ELSE DRQNhiddenAgent_train_hidden(sequence)
             returned == lstm_forward(qnet, sequence[1].observation, train_hidden)
             target1 == IF raised THEN target_net_update_schedule
                        ELSE update_target_schedule(trains, target_net_update_schedule)
             fires == ~raised /\ PeriodicValue(target1)
             period_fired == g.period_called /\ PeriodicValue(g.period_steps)
         IN  /\ hidden_state' = IF trains THEN train_live_hidden(live, returned)
                                 ELSE live
             /\ replay_buffer' = buffer1
             /\ learn_schedule' = learn1
             /\ update_period_schedule' = g.period_steps
             /\ target_net_update_schedule' = target1
             /\ qnet' = nets[1]
             /\ target_qnet' = update_sync_target(fires, nets[1], nets[2])
             /\ calls' = [ updates |-> calls.updates + 1,
                           trained |-> calls.trained + (IF trains THEN 1 ELSE 0),
                           period_fired |-> calls.period_fired
                                            + (IF period_fired THEN 1 ELSE 0) ]
             /\ last' = [ NoCall EXCEPT !.op = "update", !.training = training,
                                        !.done = update_info.done,
                                        !.reward_in = update_info.reward,
                                        !.ready = ready, !.added = TRUE,
                                        !.size = size, !.size_read = g.size_read,
                                        !.period_called = g.period_called,
                                        !.period_fired = period_fired,
                                        !.sampled = g.train, !.raised = raised,
                                        !.trained = trains,
                                        !.target_called = ~raised,
                                        !.target_fired = fires ]

\* DRQNAgent.update(update_info) for the step in flight, with the sample, the
\* optimizer's result and the logger's answer given.
DRQNAgent_update_call(reward, done, start, q_new, should_log) ==
    LET update_info == [ observation |-> env.observation, action |-> env.action,
                         reward |-> reward, done |-> done ]
    IN  /\ episode_start' = update_episode_start(done, episode_start)
        /\ update_body(update_info,
                       DRQNAgent_preprocess_update_info(update_info, reward_clip),
                       hidden_state, start, q_new, should_log)
        /\ pc' = "act"
        /\ env' = [ observation |-> 0, action |-> 0 ]
        /\ UNCHANGED << variant, reward_clip, training, prev_hidden_state,
                        prev_cell_state, epsilon_schedule, steps, entry_hidden >>

DRQNAgent_update ==
    /\ variant = "DRQNAgent"
    /\ pc = "update"
    /\ \E reward \in Rewards, done \in BOOLEAN, q_new \in Params,
          start \in SampleStarts, should_log \in BOOLEAN :
            DRQNAgent_update_call(reward, done, start, q_new, should_log)

DRQNhiddenAgent_update ==
    /\ variant = "DRQNhiddenAgent"
    /\ pc = "update"
    /\ \E reward \in Rewards, done \in BOOLEAN, q_new \in Params,
          start \in SampleStarts, should_log \in BOOLEAN :
         LET update_info == [ observation |-> env.observation, action |-> env.action,
                              reward |-> reward, done |-> done ]
         IN  /\ episode_start' = update_episode_start(done, episode_start)
             /\ update_body(update_info,
                            DRQNhiddenAgent_preprocess_update_info(
                                update_info, reward_clip,
                                prev_hidden_state, prev_cell_state),
                            update_hidden_on_done(done, hidden_state), start, q_new,
                            should_log)
    /\ pc' = "act"
    /\ env' = [ observation |-> 0, action |-> 0 ]
    /\ UNCHANGED << variant, reward_clip, training, prev_hidden_state,
                    prev_cell_state, epsilon_schedule, steps, entry_hidden >>

Next ==
    \/ SetTraining /\ UNCHANGED aux
    \/ DRQNAgent_act /\ UNCHANGED aux
    \/ DRQNhiddenAgent_act /\ UNCHANGED aux
    \/ DRQNAgent_update /\ UNCHANGED aux
    \/ DRQNhiddenAgent_update /\ UNCHANGED aux

Spec == Init /\ [][Next]_vars

(* ------------------- one soft update of a parameter ------------------- *)

\* An agent just constructed, with one online and one target parameter and a
\* target_net_update_fraction drawn for the soft update.
SoftInit ==
    /\ AgentInit
    /\ variant = "DRQNAgent"
    /\ reward_clip = <<>>
    /\ learn_schedule = SwitchInit(1)
    /\ aux \in [ kind : { "soft" }, q : 0..SoftScale, t : 0..SoftScale,
                  f : 0..SoftScale, synced : { FALSE }, out : { 0 } ]

\* self._update_target() with target_net_soft_update = True.
SoftSync ==
    /\ aux.kind = "soft"
    /\ ~aux.synced
    /\ aux' = [ aux EXCEPT !.synced = TRUE,
                           !.out = soft_update_target(aux.q, aux.t, aux.f) ]
    /\ UNCHANGED agent_vars

SoftNext == SoftSync

SpecSoft == SoftInit /\ [][SoftNext]_vars

(* ------------------- constructing a DRQNhiddenAgent ------------------- *)

\* The parameters of DRQNAgent.__init__ after self, in order.
DRQNAgent_init_params ==
    << "representation_net", "obs_dim", "act_dim", "id", "optimizer_fn",
       "loss_fn", "init_fn", "replay_buffer", "discount_rate", "n_step",
       "grad_clip", "reward_clip", "update_period_schedule",
       "target_net_soft_update", "target_net_update_fraction",
       "target_net_update_schedule", "epsilon_schedule", "test_epsilon",
       "min_replay_history", "batch_size", "device", "logger", "log_frequency" >>

\* The parameters of DRQNhiddenAgent.__init__ after self, in order.
DRQNhiddenAgent_init_params ==
    << "representation_net", "obs_dim", "act_dim", "stack_size", "id",
       "optimizer_fn", "loss_fn", "init_fn", "replay_buffer", "discount_rate",
       "n_step", "grad_clip", "reward_clip", "update_period_schedule",
       "target_net_soft_update", "target_net_update_fraction",
       "target_net_update_schedule", "epsilon_schedule", "test_epsilon",
       "min_replay_history", "batch_size", "device", "logger", "log_frequency" >>

\* The names DRQNhiddenAgent.__init__ passes to super().__init__, all of them
\* positionally, in order.
DRQNhiddenAgent_super_args ==
    << "representation_net", "obs_dim", "act_dim", "stack_size", "id",
       "optimizer_fn", "loss_fn", "init_fn", "replay_buffer", "discount_rate",
       "n_step", "grad_clip", "reward_clip", "update_period_schedule",
       "target_net_soft_update", "target_net_update_fraction",
       "target_net_update_schedule", "epsilon_schedule", "test_epsilon",
       "min_replay_history", "batch_size", "device", "logger", "log_frequency" >>

\* The position of a name in a parameter list (0: not in it).
IndexOf(name, params) ==
    IF \E i \in 1..Len(params) : params[i] = name
    THEN CHOOSE i \in 1..Len(params) : params[i] = name
    ELSE 0

\* A Python call with positional arguments only: more arguments than
\* parameters raise TypeError, otherwise argument i is bound to parameter i.
python_call(params, args) ==
    IF Len(args) > Len(params)
    THEN [ raised |-> TRUE, bound |-> << >> ]
    ELSE [ raised |-> FALSE, bound |-> args ]

\* DRQNhiddenAgent.__init__: the values it received, looked up by the names it
\* passes on, handed to DRQNAgent.__init__.
DRQNhiddenAgent_init(received) ==
    python_call(DRQNAgent_init_params,
                [i \in 1..Len(DRQNhiddenAgent_super_args) |->
                    received[IndexOf(DRQNhiddenAgent_super_args[i],
                                     DRQNhiddenAgent_init_params)]])

\* The caller's arguments: a token per parameter, and a few values each for
\* stack_size, id and batch_size.
CtorInit ==
    /\ AgentInit
    /\ variant = "DRQNhiddenAgent"
    /\ reward_clip = <<>>
    /\ learn_schedule = SwitchInit(1)
    /\ \E s \in 0..(CtorChoices - 1), d \in 0..(CtorChoices - 1),
          b \in 0..(CtorChoices - 1) :
          aux = [ kind |-> "ctor",
                  received |->
                      [i \in 1..Len(DRQNhiddenAgent_init_params) |->
                          CtorChoices * i
                          + (IF DRQNhiddenAgent_init_params[i] = "stack_size" THEN s
                             ELSE IF DRQNhiddenAgent_init_params[i] = "id" THEN d
                             ELSE IF DRQNhiddenAgent_init_params[i] = "batch_size" THEN b
                             ELSE 0)],
                  called |-> FALSE, raised |-> FALSE, bound |-> << >> ]

\* DRQNhiddenAgent(...) is called.
CtorCall ==
    /\ aux.kind = "ctor"
    /\ ~aux.called
    /\ aux' = [ aux EXCEPT !.called = TRUE,
                           !.raised = DRQNhiddenAgent_init(aux.received).raised,
                           !.bound = DRQNhiddenAgent_init(aux.received).bound ]
    /\ UNCHANGED agent_vars

CtorNext == CtorCall

SpecCtor == CtorInit /\ [][CtorNext]_vars

(* ------------- the initial states of one training step ---------------- *)

\* A buffer of stored snapshots and the start index of each sequence sample()
\* drew from it.
BatchInit ==
    /\ AgentInit
    /\ variant = "DRQNhiddenAgent"
    /\ reward_clip = <<>>
    /\ learn_schedule = SwitchInit(1)
    /\ aux \in [ kind : { "batch" },
                buffer : [1..SampleLen -> Snapshots],
                starts : [1..batch_size -> 1..(SampleLen - max_seq_len)],
                trained : { FALSE },
                hidden : { << >> }, target_hidden : { << >> } ]

\* The training step of DRQNhiddenAgent.update builds the initial states of
\* the online and of the target network from the sampled batch.
BatchTrain ==
    /\ aux.kind = "batch"
    /\ ~aux.trained
    /\ aux' = [ aux EXCEPT
                  !.trained = TRUE,
                  !.hidden = [b \in 1..batch_size |->
                      DRQNhiddenAgent_train_hidden(
                          ReplaySampleNext(aux.buffer, aux.starts[b]))],
                  !.target_hidden = [b \in 1..batch_size |->
                      DRQNhiddenAgent_train_target_hidden(
                          ReplaySampleNext(aux.buffer, aux.starts[b]))] ]
    /\ UNCHANGED agent_vars

BatchNext == BatchTrain

SpecBatch == BatchInit /\ [][BatchNext]_vars

(* ------------------- the targets of one training step ----------------- *)

\* The hidden state a network with parameters q has before position k of a
\* sequence of observations, started from hidden.
hidden_before(q, observations, hidden, k) ==
    LET RECURSIVE run(_)
        run(i) == IF i = 1 THEN hidden
                  ELSE lstm_forward(q, observations[i - 1], run(i - 1))
    IN  run(k)

\* The Q-values a network with parameters q returns for every position of a
\* sequence of observations.
sequence_qvals(q, observations, hidden) ==
    [k \in 1..Len(observations) |->
        qvals_of(q, observations[k], hidden_before(q, observations, hidden, k))]

\* A sampled batch of batch_size sequences of max_seq_len positions, each
\* with its reward, done flag and next observation, and the parameters of the
\* two networks.
TargetInit ==
    /\ AgentInit
    /\ variant = "DRQNAgent"
    /\ reward_clip = <<>>
    /\ learn_schedule = SwitchInit(1)
    /\ aux \in [ kind : { "target" },
                q : Params, t : Params,
                reward : [1..batch_size -> [1..max_seq_len -> Rewards]],
                done : [1..batch_size -> [1..max_seq_len -> { 0, 1 }]],
                next_observation : [1..batch_size -> [1..max_seq_len -> Obs]],
                computed : { FALSE },
                q_targets : { << >> } ]

\* The training step computes q_targets for the batch.
TargetCompute ==
    /\ aux.kind = "target"
    /\ ~aux.computed
    /\ LET next_qvals(b) ==
               update_next_qvals(
                   sequence_qvals(aux.q, aux.next_observation[b], init_hidden),
                   sequence_qvals(aux.t, aux.next_observation[b], init_hidden))
       IN  aux' = [ aux EXCEPT
                      !.computed = TRUE,
                      !.q_targets =
                          [b \in 1..batch_size |-> [k \in 1..max_seq_len |->
                              q_targets(aux.reward[b][k], aux.done[b][k],
                                        max_over_actions(next_qvals(b)[k]))]] ]
    /\ UNCHANGED agent_vars

TargetNext == TargetCompute

SpecTarget == TargetInit /\ [][TargetNext]_vars

(* ------------- two environment loops sharing one agent ---------------- *)

\* Two loops drive one DRQNhiddenAgent.  pc, env and entry_hidden belong to
\* the loop that runs; aux keeps those of the loop that waits, whether the
\* snapshot each loop's last act() took is still the one the agent holds
\* (clean), and the live state on entry to the most recent act() of either.
SharedInit ==
    /\ AgentInit
    /\ variant = "DRQNhiddenAgent"
    /\ reward_clip = <<>>
    /\ learn_schedule = SwitchInit(1)
    /\ aux = [ kind |-> "shared", pc |-> "act",
               env |-> [ observation |-> 0, action |-> 0 ],
               entry_hidden |-> <<0, 0>>,
               clean |-> FALSE, other_clean |-> FALSE,
               recent_entry |-> <<0, 0>> ]

\* The other loop gets to make its next call.
SharedSwitch ==
    /\ aux.kind = "shared"
    /\ pc' = aux.pc
    /\ env' = aux.env
    /\ entry_hidden' = aux.entry_hidden
    /\ aux' = [ aux EXCEPT !.pc = pc, !.env = env, !.entry_hidden = entry_hidden,
                           !.clean = aux.other_clean, !.other_clean = aux.clean ]
    /\ UNCHANGED << variant, reward_clip, training, hidden_state, prev_hidden_state,
                    prev_cell_state, episode_start, replay_buffer, learn_schedule,
                    update_period_schedule, target_net_update_schedule,
                    epsilon_schedule, qnet, target_qnet, steps, calls, last >>

\* The running loop calls act(): the agent's one snapshot is now this loop's.
SharedAct ==
    /\ aux.kind = "shared"
    /\ DRQNhiddenAgent_act
    /\ aux' = [ aux EXCEPT !.clean = TRUE, !.other_clean = FALSE,
                           !.recent_entry = hidden_state ]

\* The running loop calls update().
SharedUpdate ==
    /\ aux.kind = "shared"
    /\ DRQNhiddenAgent_update
    /\ UNCHANGED aux

SharedNext ==
    \/ SharedSwitch
    \/ SharedAct
    \/ SharedUpdate

SpecShared == SharedInit /\ [][SharedNext]_vars

(* ------------- two runs that differ in the logger's answers ----------- *)

\* The agent and its environment loop, as one value.
AgentRecord ==
    [ variant |-> variant, reward_clip |-> reward_clip, training |-> training,
      hidden_state |-> hidden_state, prev_hidden_state |-> prev_hidden_state,
      prev_cell_state |-> prev_cell_state, episode_start |-> episode_start,
      replay_buffer |-> replay_buffer, learn_schedule |-> learn_schedule,
      update_period_schedule |-> update_period_schedule,
      target_net_update_schedule |-> target_net_update_schedule,
      epsilon_schedule |-> epsilon_schedule, qnet |-> qnet,
      target_qnet |-> target_qnet, pc |-> pc, env |-> env, steps |-> steps,
      entry_hidden |-> entry_hidden, calls |-> calls, last |-> last ]

\* The inputs of one call other than the logger's answers.
NoInputs ==
    [ observation |-> 0, u |-> 0, r |-> 0, reward |-> 0, done |-> FALSE,
      start |-> 1, q_new |-> 0 ]

\* Two DRQNAgents constructed alike.  The variables hold the run that makes
\* the next call, aux.twin the other one; the run that leads draws the inputs
\* of a call, the run that follows makes the same call with the same inputs
\* and a logger answer of its own.
TwinInit ==
    /\ AgentInit
    /\ variant = "DRQNAgent"
    /\ reward_clip = <<>>
    /\ learn_schedule = SwitchInit(1)
    /\ aux = [ kind |-> "twin", phase |-> "lead", inputs |-> NoInputs,
               twin |-> AgentRecord ]

TwinLeadAct ==
    /\ aux.kind = "twin"
    /\ aux.phase = "lead"
    /\ pc = "act"
    /\ steps < MaxSteps
    /\ \E observation \in Obs, u \in 0..(EpsScale - 1), r \in Actions,
          should_log \in BOOLEAN :
          /\ DRQNAgent_act_call(observation, u, r, should_log)
          /\ aux' = [ aux EXCEPT !.phase = "swap",
                                 !.inputs = [ NoInputs EXCEPT
                                                !.observation = observation,
                                                !.u = u, !.r = r ] ]

TwinLeadUpdate ==
    /\ aux.kind = "twin"
    /\ aux.phase = "lead"
    /\ pc = "update"
    /\ \E reward \in Rewards, done \in BOOLEAN, q_new \in Params,
          start \in SampleStarts, should_log \in BOOLEAN :
          /\ DRQNAgent_update_call(reward, done, start, q_new, should_log)
          /\ aux' = [ aux EXCEPT !.phase = "swap",
                                 !.inputs = [ NoInputs EXCEPT
                                                !.reward = reward, !.done = done,
                                                !.start = start, !.q_new = q_new ] ]

\* The run that led steps aside for the run that follows.
TwinSwap ==
    /\ aux.kind = "twin"
    /\ aux.phase = "swap"
    /\ variant' = aux.twin.variant
    /\ reward_clip' = aux.twin.reward_clip
    /\ training' = aux.twin.training
    /\ hidden_state' = aux.twin.hidden_state
    /\ prev_hidden_state' = aux.twin.prev_hidden_state
    /\ prev_cell_state' = aux.twin.prev_cell_state
    /\ episode_start' = aux.twin.episode_start
    /\ replay_buffer' = aux.twin.replay_buffer
    /\ learn_schedule' = aux.twin.learn_schedule
    /\ update_period_schedule' = aux.twin.update_period_schedule
    /\ target_net_update_schedule' = aux.twin.target_net_update_schedule
    /\ epsilon_schedule' = aux.twin.epsilon_schedule
    /\ qnet' = aux.twin.qnet
    /\ target_qnet' = aux.twin.target_qnet
    /\ pc' = aux.twin.pc
    /\ env' = aux.twin.env
    /\ steps' = aux.twin.steps
    /\ entry_hidden' = aux.twin.entry_hidden
    /\ calls' = aux.twin.calls
    /\ last' = aux.twin.last
    /\ aux' = [ aux EXCEPT !.phase = "follow", !.twin = AgentRecord ]

TwinFollowAct ==
    /\ aux.kind = "twin"
    /\ aux.phase = "follow"
    /\ pc = "act"
    /\ \E should_log \in BOOLEAN :
          DRQNAgent_act_call(aux.inputs.observation, aux.inputs.u, aux.inputs.r,
                             should_log)
    /\ aux' = [ aux EXCEPT !.phase = "lead" ]

TwinFollowUpdate ==
    /\ aux.kind = "twin"
    /\ aux.phase = "follow"
    /\ pc = "update"
    /\ \E should_log \in BOOLEAN :
          DRQNAgent_update_call(aux.inputs.reward, aux.inputs.done,
                                aux.inputs.start, aux.inputs.q_new, should_log)
    /\ aux' = [ aux EXCEPT !.phase = "lead" ]

TwinNext ==
    \/ TwinLeadAct
    \/ TwinLeadUpdate
    \/ TwinSwap
    \/ TwinFollowAct
    \/ TwinFollowUpdate

SpecTwin == TwinInit /\ [][TwinNext]_vars

(* --------------------------- ActivationCheck --------------------------- *)

\* The configuration of the check and the bounds of the activation function.
Period == 2
config_start == 0
initial_patience == 5
acts_min_bound == 0
acts_max_bound == 1

\* Tensor entries are integers, with two values standing for inf and nan.
inf == 99
nan == 98
isfinite(v) == v # inf /\ v # nan

\* The model outputs of a run: batches of two rows and two columns.
OutputBatches ==
    { << <<0, 0>>, <<0, 0>> >>,
      << <<0, 1>>, <<0, 1>> >>,
      << <<1, 0>>, <<0, 1>> >>,
      << <<1, 0>>, <<0, 0>> >>,
      << <<0, 0 - 2>>, <<0, 0>> >>,
      << <<inf, 0>>, <<0, 1>> >>,
      << <<nan, 0>>, <<0, 1>> >> }

\* The activations a hooked layer produces in a run.
ActivationBatches ==
    { <<0, 1>>, <<1, 1>>, <<0 - 1, 0>>, <<1, 2>>, <<0, nan>> }

Columns(outs_array) == 1..Len(outs_array[1])
Rows(outs_array) == 1..Len(outs_array)

\* outs_array.var(dim=0) > 0: false for a constant column and for a column that
\* holds inf or nan (its variance is nan).
var_positive(outs_array) ==
    [j \in Columns(outs_array) |->
        /\ \A i \in Rows(outs_array) : isfinite(outs_array[i][j])
        /\ \E i, k \in Rows(outs_array) : outs_array[i][j] # outs_array[k][j]]

\* (torch.abs(outs_array) > 1).any(dim=0)
abs_greater_than_one(outs_array) ==
    [j \in Columns(outs_array) |->
        \E i \in Rows(outs_array) :
            \/ outs_array[i][j] = inf
            \/ isfinite(outs_array[i][j])
               /\ (outs_array[i][j] > 1 \/ outs_array[i][j] < 0 - 1)]

\* (outs_array < 0).any(dim=0)
any_negative(outs_array) ==
    [j \in Columns(outs_array) |->
        \E i \in Rows(outs_array) :
            isfinite(outs_array[i][j]) /\ outs_array[i][j] < 0]

any_isinf(array) == \E i \in DOMAIN array : array[i] = inf
any_isnan(array) == \E i \in DOMAIN array : array[i] = nan
Flatten(outs_array) ==
    [n \in 1..(Len(outs_array) * Len(outs_array[1])) |->
        outs_array[((n - 1) \div Len(outs_array[1])) + 1]
                  [((n - 1) % Len(outs_array[1])) + 1]]

\* A status that keeps only what the last outputs showed.
update_status_overwrite(status, shown) == shown

\* status |= shown, and status = shown while the status is still None (<<>>).
update_status(status, shown) ==
    IF status = << >> THEN shown
    ELSE [j \in DOMAIN status |-> status[j] \/ shown[j]]

\* ActivationCheck.update_outs_conds
update_outs_conds(outputs_metadata, outs_array) ==
    [ outputs_metadata EXCEPT
        !.non_zero_variance.status = update_status(@, var_positive(outs_array)),
        !.max_abs_greater_than_one.status =
            update_status(@, abs_greater_than_one(outs_array)),
        !.can_be_negative.status = update_status(@, any_negative(outs_array)) ]

\* The output validity test at the end of check_outputs, for more than one
\* column: every entry >= 0 and every row sum within (0.95, 1.05).
output_valid(outs_array) ==
    /\ \A i \in Rows(outs_array) : \A j \in Columns(outs_array) :
          outs_array[i][j] = inf \/ (isfinite(outs_array[i][j]) /\ outs_array[i][j] >= 0)
    /\ \A i \in Rows(outs_array) :
          /\ \A j \in Columns(outs_array) : isfinite(outs_array[i][j])
          /\ outs_array[i][1] + outs_array[i][2] = 1

\* ActivationCheck.check_outputs: the metadata and the message list it leaves.
check_outputs(outputs_metadata, outs_array, error_msg) ==
    LET has_inf == any_isinf(Flatten(outs_array))
        has_nan == any_isnan(Flatten(outs_array))
        msg1 == IF has_inf THEN Append(error_msg, "out_inf")
                ELSE IF has_nan THEN Append(error_msg, "out_nan")
                ELSE error_msg
        status == outputs_metadata.non_zero_variance.status
        stuck == \E j \in DOMAIN status : status[j] = FALSE
        patience1 == IF stuck THEN outputs_metadata.non_zero_variance.patience - 1
                     ELSE initial_patience
        msg2 == IF stuck /\ patience1 <= 0 THEN Append(msg1, "out_cons") ELSE msg1
        msg3 == IF output_valid(outs_array) THEN msg2
                ELSE Append(msg2, "output_invalid")
    IN  IF ~has_inf /\ has_nan
        THEN [ outputs_metadata |-> outputs_metadata, error_msg |-> msg1 ]
        ELSE [ outputs_metadata |->
                   [ outputs_metadata EXCEPT !.non_zero_variance.patience = patience1 ],
               error_msg |-> msg3 ]

\* ActivationCheck.check_activations_range: the message list it leaves.
check_activations_range(disabled, acts_array, error_msg) ==
    IF disabled THEN error_msg
    ELSE LET msg1 == IF \E i \in DOMAIN acts_array :
                            isfinite(acts_array[i]) /\ acts_array[i] < acts_max_bound
                     THEN Append(error_msg, "act_ltn") ELSE error_msg
         IN  IF \E i \in DOMAIN acts_array :
                    acts_array[i] = inf
                    \/ (isfinite(acts_array[i]) /\ acts_array[i] > acts_max_bound)
             THEN Append(msg1, "act_gtn") ELSE msg1

\* ActivationCheck.update_buffer: the first call for a layer stores its
\* activations; a later call reads self.nn_data.buff_scale, an attribute a
\* dict does not have.
update_buffer(nn_data, acts_name) ==
    IF acts_name \notin nn_data
    THEN [ nn_data |-> nn_data \cup { acts_name }, raised |-> "none" ]
    ELSE [ nn_data |-> nn_data, raised |-> "AttributeError" ]

\* The parameters of check_numerical_instabilities after self, and the
\* arguments run passes to it.
check_numerical_instabilities_params == << "acts_name", "acts_array", "error_msg" >>
check_numerical_instabilities_args == << "acts_name", "acts_array" >>

\* A call that leaves a parameter without default unbound raises TypeError.
call_raises(params, args) ==
    IF Len(args) < Len(params) THEN "TypeError" ELSE "none"

\* The loop body of run for one hooked layer: what it raises, the buffer
\* keys and the messages it leaves, and the messages of the range check.
run_layer(nn_data, acts_name, acts_array, range_disabled, iteration_number, error_msg) ==
    LET buffered == update_buffer(nn_data, acts_name)
        skipped == iteration_number < config_start \/ iteration_number % Period # 0
        ranged == check_activations_range(range_disabled, acts_array, error_msg)
    IN  IF buffered.raised # "none"
        THEN [ nn_data |-> buffered.nn_data, raised |-> buffered.raised,
               error_msg |-> error_msg, range_checked |-> << >> ]
        ELSE IF skipped
        THEN [ nn_data |-> buffered.nn_data, raised |-> "none",
               error_msg |-> error_msg, range_checked |-> << >> ]
        ELSE [ nn_data |-> buffered.nn_data,
               raised |-> call_raises(check_numerical_instabilities_params,
                                      check_numerical_instabilities_args),
               error_msg |-> ranged, range_checked |-> acts_array ]

\* A checker just constructed, a model with no forward hooks and with or
\* without one activation layer, and the Range check enabled or disabled.
ActivationInit ==
    /\ AgentInit
    /\ variant = "DRQNAgent"
    /\ reward_clip = <<>>
    /\ learn_schedule = SwitchInit(1)
    /\ \E layers \in { 0, 1 }, range_disabled \in BOOLEAN :
          aux = [ kind |-> "activation", layers |-> layers,
                  range_disabled |-> range_disabled,
                  iteration_number |-> 0,
                  forward_hooks |-> 0,
                  nn_data |-> { },
                  outputs_metadata |->
                      [ non_zero_variance |-> [ patience |-> initial_patience, status |-> << >> ],
                        max_abs_greater_than_one |->
                            [ patience |-> initial_patience, status |-> << >> ],
                        can_be_negative |-> [ patience |-> initial_patience, status |-> << >> ] ],
                  error_msg |-> << >>, raised |-> "none",
                  range_checked |-> << >>, range_msg |-> << >>,
                  checked |-> FALSE, stuck_checks |-> 0 ]

\* ActivationCheck.run(observations, actions, model, iteration_number), called
\* once per iteration.
ActivationRun ==
    /\ aux.kind = "activation"
    /\ aux.iteration_number < MaxRuns
    /\ \E outputs \in OutputBatches, acts_array \in ActivationBatches :
         LET hooks1 == aux.forward_hooks + aux.layers
             meta1 == update_outs_conds(aux.outputs_metadata, outputs)
             due == aux.iteration_number % Period = 0
             checked == IF due THEN check_outputs(meta1, outputs, << >>)
                        ELSE [ outputs_metadata |-> meta1, error_msg |-> << >> ]
             stuck == due /\ \E j \in DOMAIN meta1.non_zero_variance.status :
                                 meta1.non_zero_variance.status[j] = FALSE
             layer == IF aux.layers = 0
                      THEN [ nn_data |-> aux.nn_data, raised |-> "none",
                             error_msg |-> checked.error_msg,
                             range_checked |-> << >> ]
                      ELSE run_layer(aux.nn_data, "layer", acts_array,
                                     aux.range_disabled, aux.iteration_number,
                                     checked.error_msg)
         IN  aux' = [ aux EXCEPT
                        !.iteration_number = @ + 1,
                        !.forward_hooks = hooks1,
                        !.nn_data = layer.nn_data,
                        !.outputs_metadata = checked.outputs_metadata,
                        !.error_msg = layer.error_msg,
                        !.raised = layer.raised,
                        !.range_checked = layer.range_checked,
                        !.range_msg = IF layer.range_checked = << >> THEN << >>
                                      ELSE check_activations_range(
                                               aux.range_disabled, acts_array, << >>),
                        !.checked = due,
                        !.stuck_checks = @ + (IF stuck THEN 1 ELSE 0) ]
    /\ UNCHANGED agent_vars

ActivationNext == ActivationRun

SpecActivation == ActivationInit /\ [][ActivationNext]_vars

(* --------------------------- OverfitBiasCheck -------------------------- *)

\* The bias arrays a run is given for its one bias.
BiasArrays == { <<0, 0>>, <<1, 0>>, <<inf, 0>>, <<nan, 0>> }

\* OverfitBiasCheck.check_numerical_instabilities: what it returns and the
\* list self.error_msg it leaves.
bias_check_numerical_instabilities(disabled, bias_array, error_msg) ==
    IF disabled THEN [ returned |-> FALSE, error_msg |-> error_msg ]
    ELSE IF any_isinf(bias_array)
    THEN [ returned |-> TRUE, error_msg |-> Append(error_msg, "b_inf") ]
    ELSE IF any_isnan(bias_array)
    THEN [ returned |-> TRUE, error_msg |-> Append(error_msg, "b_nan") ]
    ELSE [ returned |-> FALSE, error_msg |-> error_msg ]

\* OverfitBiasCheck.check_divergence on b_reductions = np.mean(np.abs(b_array)),
\* a scalar: indexing it with [-1] raises IndexError.
bias_check_divergence(disabled) ==
    IF disabled THEN "none" ELSE "IndexError"

\* OverfitBiasCheck.run for a dict with one bias: the list self.error_msg it
\* leaves, which is the list it returns, and what it raises.
OverfitBiasCheck_run(numeric_disabled, div_disabled, bias_array, error_msg) ==
    LET checked == bias_check_numerical_instabilities(numeric_disabled, bias_array,
                                                      error_msg)
    IN  [ error_msg |-> checked.error_msg,
          raised |-> IF checked.returned THEN "none"
                     ELSE bias_check_divergence(div_disabled) ]

\* A checker just constructed, with each of its two checks enabled or
\* disabled by the configuration.
OverfitInit ==
    /\ AgentInit
    /\ variant = "DRQNAgent"
    /\ reward_clip = <<>>
    /\ learn_schedule = SwitchInit(1)
    /\ \E numeric_disabled \in BOOLEAN, div_disabled \in BOOLEAN :
          aux = [ kind |-> "overfit", numeric_disabled |-> numeric_disabled,
                  div_disabled |-> div_disabled, runs |-> 0,
                  error_msg |-> << >>, returned |-> << >>, raised |-> "none",
                  bias_array |-> << >>, own_msg |-> << >> ]

\* OverfitBiasCheck.run(biases)
OverfitRun ==
    /\ aux.kind = "overfit"
    /\ aux.runs < MaxOverfitRuns
    /\ \E bias_array \in BiasArrays :
         LET result == OverfitBiasCheck_run(aux.numeric_disabled, aux.div_disabled,
                                            bias_array, aux.error_msg)
         IN  aux' = [ aux EXCEPT
                        !.runs = @ + 1,
                        !.error_msg = result.error_msg,
                        !.returned = IF result.raised = "none" THEN result.error_msg
                                     ELSE << >>,
                        !.raised = result.raised,
                        !.bias_array = bias_array,
                        !.own_msg = SubSeq(result.error_msg, Len(aux.error_msg) + 1,
                                           Len(result.error_msg)) ]
    /\ UNCHANGED agent_vars

OverfitNext == OverfitRun

SpecOverfit == OverfitInit /\ [][OverfitNext]_vars

(* ------------------------------- BiasCheck ----------------------------- *)

\* The number of BiasCheck.run calls followed.
MaxBiasRuns == 2

\* The elements of a bias array.
BiasValues == { -1, 0, 1 }

\* The bias arrays of a layer: two elements each.
LayerBiases == [ 1..2 -> BiasValues ]

\* The dicts get_model_weights_and_biases returns as initial_biases, as the
\* sequence of their arrays: a model without biases, with one, with two.
InitialBiases == { << >> } \cup { <<b>> : b \in LayerBiases }
                     \cup { <<b, c>> : b \in LayerBiases, c \in LayerBiases }

RECURSIVE np_sum_from(_, _)
np_sum_from(b_array, i) ==
    IF i > Len(b_array) THEN 0 ELSE b_array[i] + np_sum_from(b_array, i + 1)

\* np.sum(b_array)
np_sum(b_array) == np_sum_from(b_array, 1)

\* np.all(checks)
np_all(checks) == \A i \in DOMAIN checks : checks[i]

\* BiasCheck.run(model): the list it returns.
BiasCheck_run(initial_biases) ==
    IF initial_biases = << >> THEN <<"need_bias">>
    ELSE LET checks == [ i \in DOMAIN initial_biases |->
                             np_sum(initial_biases[i]) = 0 ]
         IN  IF ~np_all(checks) THEN <<"zero_bias">> ELSE << >>

\* A BiasCheck just constructed.
BiasInit ==
    /\ AgentInit
    /\ variant = "DRQNAgent"
    /\ reward_clip = <<>>
    /\ learn_schedule = SwitchInit(1)
    /\ aux = [ kind |-> "bias", runs |-> 0, initial_biases |-> << >>,
               returned |-> << >> ]

\* BiasCheck.run(model)
BiasRun ==
    /\ aux.kind = "bias"
    /\ aux.runs < MaxBiasRuns
    /\ \E initial_biases \in InitialBiases :
          aux' = [ aux EXCEPT !.runs = @ + 1,
                              !.initial_biases = initial_biases,
                              !.returned = BiasCheck_run(initial_biases) ]
    /\ UNCHANGED agent_vars

BiasNext == BiasRun

SpecBias == BiasInit /\ [][BiasNext]_vars

(* --------------------------------- Chomp ------------------------------- *)

\* The names the module hive.utils.utils binds itself: its import and its
\* two definitions.
ModuleGlobals == { "os", "create_folder", "Chomp" }

\* The attributes the class Chomp defines, found by the normal attribute
\* lookup before __getattr__ is tried.
ClassAttributes == { "remove", "get", "values", "save", "load", "setvalues",
                     "add_from_dict" }

\* The entries of the instance's own __dict__ after __init__.
InstanceDict == { "tparams" }

\* The names and the arrays the operations are called with.
ChompNames == { "x", "get", "tparams" }
ChompArrays == { 1, 2 }

\* What a read gives: a stored array, None, a bound method of the class, or
\* the OrderedDict tparams itself.
ArrayValue(array) == [ kind |-> "array", array |-> array ]
NoneValue == [ kind |-> "None", array |-> 0 ]
MethodValue == [ kind |-> "method", array |-> 0 ]
TparamsValue == [ kind |-> "tparams", array |-> 0 ]

\* The keys of the OrderedDict tparams, a sequence of <<name, array>> items.
Keys(tparams) == { tparams[i][1] : i \in DOMAIN tparams }

\* tparams[name] for a name among the keys.
Item(tparams, name) ==
    tparams[CHOOSE i \in DOMAIN tparams : tparams[i][1] = name][2]

\* Chomp.__init__: raises NameError unless OrderedDict is bound in the module.
Chomp_init(module_globals) ==
    IF "OrderedDict" \in module_globals THEN "none" ELSE "NameError"

\* Chomp.__setattr__: tparams[name] = array; a new key goes last, a key
\* already there keeps its place.
Chomp_setattr(tparams, name, array) ==
    IF name \in Keys(tparams)
    THEN [ i \in DOMAIN tparams |->
             IF tparams[i][1] = name THEN <<name, array>> ELSE tparams[i] ]
    ELSE Append(tparams, <<name, array>>)

\* Chomp.__getattr__
Chomp_getattr(tparams, name) ==
    IF name \in Keys(tparams) THEN ArrayValue(Item(tparams, name)) ELSE NoneValue

\* Chomp.__getitem__
Chomp_getitem(tparams, name) == Chomp_getattr(tparams, name)

\* The attribute read c.name: the instance's __dict__, then the class, and
\* __getattr__ only when both fail.
attribute_read(tparams, name) ==
    IF name \in InstanceDict THEN TparamsValue
    ELSE IF name \in ClassAttributes THEN MethodValue
    ELSE Chomp_getattr(tparams, name)

\* Chomp.remove: del tparams[name], KeyError for a name that is not a key.
Chomp_remove(tparams, name) ==
    IF name \in Keys(tparams)
    THEN [ raised |-> "none",
           tparams |-> SelectSeq(tparams, LAMBDA item : item[1] # name) ]
    ELSE [ raised |-> "KeyError", tparams |-> tparams ]

NoChompCall == [ op |-> "none", name |-> "", item |-> FALSE,
                 result |-> NoneValue, raised |-> "none" ]

\* Before Chomp() is called: the module's own names are bound, and
\* OrderedDict is if the importing program bound it there.
ChompInit ==
    /\ AgentInit
    /\ variant = "DRQNAgent"
    /\ reward_clip = <<>>
    /\ learn_schedule = SwitchInit(1)
    /\ \E module_globals \in { ModuleGlobals, ModuleGlobals \cup {"OrderedDict"} } :
          aux = [ kind |-> "chomp", module_globals |-> module_globals,
                  constructed |-> FALSE, tparams |-> << >>,
                  written |-> [ name \in ChompNames |-> NoneValue ],
                  last |-> NoChompCall ]

\* c = Chomp()
ChompConstruct ==
    /\ aux.kind = "chomp"
    /\ ~aux.constructed
    /\ aux.last.op = "none"
    /\ LET raised == Chomp_init(aux.module_globals)
       IN  aux' = [ aux EXCEPT !.constructed = (raised = "none"),
                               !.last = [ NoChompCall EXCEPT !.op = "init",
                                                             !.raised = raised ] ]
    /\ UNCHANGED agent_vars

\* c[name] = array, or c.name = array
ChompSet ==
    /\ aux.kind = "chomp"
    /\ aux.constructed
    /\ \E name \in ChompNames, array \in ChompArrays, item \in BOOLEAN :
          aux' = [ aux EXCEPT
                     !.tparams = Chomp_setattr(@, name, array),
                     !.written[name] = ArrayValue(array),
                     !.last = [ NoChompCall EXCEPT !.op = "set", !.name = name,
                                                   !.item = item ] ]
    /\ UNCHANGED agent_vars

\* c[name], or c.name
ChompRead ==
    /\ aux.kind = "chomp"
    /\ aux.constructed
    /\ \E name \in ChompNames, item \in BOOLEAN :
          aux' = [ aux EXCEPT
                     !.last = [ NoChompCall EXCEPT
                                  !.op = "read", !.name = name, !.item = item,
                                  !.result = IF item
                                             THEN Chomp_getitem(aux.tparams, name)
                                             ELSE attribute_read(aux.tparams, name) ] ]
    /\ UNCHANGED agent_vars

\* c.remove(name)
ChompRemove ==
    /\ aux.kind = "chomp"
    /\ aux.constructed
    /\ \E name \in ChompNames :
          LET removed == Chomp_remove(aux.tparams, name)
          IN  aux' = [ aux EXCEPT
                         !.tparams = removed.tparams,
                         !.written[name] = IF removed.raised = "none"
                                           THEN NoneValue ELSE @,
                         !.last = [ NoChompCall EXCEPT !.op = "remove",
                                                       !.name = name,
                                                       !.raised = removed.raised ] ]
    /\ UNCHANGED agent_vars

ChompNext == ChompConstruct \/ ChompSet \/ ChompRead \/ ChompRemove

SpecChomp == ChompInit /\ [][ChompNext]_vars

(* -------------------------------- claims ------------------------------ *)

\* The transition the last update() passed to add().
Stored == replay_buffer.items[Len(replay_buffer.items)]

IsHidden == variant = "DRQNhiddenAgent"
IsBaseline == variant = "DRQNAgent"
AfterUpdate == last.op = "update"
AfterAct == last.op = "act"
\* A step of the model that is an update() call.
UpdateStep == pc = "update" /\ pc' = "act"
\* A step of the model that is an act() call.
ActStep == pc = "act" /\ pc' = "update"

\* C1: in DRQNhiddenAgent, the hidden_state and cell_state that update() hands
\* to the replay buffer are the live state as it was on entry to the act()
\* before it, not the state that act() left behind.
C1_SnapshotBeforeForward ==
    (IsHidden /\ AfterUpdate /\ last.added) =>
        /\ Stored.hidden_state = entry_hidden[1]
        /\ Stored.cell_state = entry_hidden[2]

\* C1 happens: a stored snapshot of a non-zero state that differs from the
\* live state act() left.
C1_Witness ==
    /\ IsHidden /\ AfterUpdate /\ last.added /\ ~last.done
    /\ entry_hidden # init_hidden
    /\ hidden_state # entry_hidden
    /\ << Stored.hidden_state, Stored.cell_state >> = entry_hidden

\* C2: in DRQNhiddenAgent, after an update() with done = True, in training or
\* in evaluation mode, the live hidden state is the zero state of init_hidden.
C2_HiddenResetOnDone ==
    (IsHidden /\ AfterUpdate /\ last.done) => hidden_state = init_hidden

\* C2 happens: an evaluation-mode update() with done = True in an episode
\* whose live state had left zero.
C2_Witness ==
    /\ IsHidden /\ AfterUpdate /\ last.done /\ ~last.training
    /\ entry_hidden # init_hidden
    /\ hidden_state = init_hidden

\* C3: in DRQNAgent, after an update() with done = True the live hidden state
\* is the zero state, so that the next episode starts from it.
C3_BaselineResetOnDone ==
    (IsBaseline /\ AfterUpdate /\ last.done) => hidden_state = init_hidden

C5_TargetFrame ==
    [][ ((ActStep \/ UpdateStep) /\ ~last'.target_fired)
            => target_qnet' = target_qnet ]_vars

\* C5 happens: a training step moved the online parameters away from the
\* target's and the schedule did not fire.
C5_Witness ==
    /\ AfterUpdate /\ last.trained /\ ~last.target_fired
    /\ qnet # target_qnet

\* C6: a training-mode update() trains if and only if the learn-start schedule
\* is on, size() > 0 and the update-period schedule fires in that call; never
\* before learning has started, and once per firing of the period schedule.
C6_TrainIffGate ==
    /\ (AfterUpdate /\ last.training) =>
           (last.trained <=> (last.ready /\ last.size > 0 /\ last.period_fired))
    /\ last.trained => last.ready
    /\ calls.trained = calls.period_fired

\* C6 happens: after one training step, an update() with learning started and
\* a non-empty buffer in which the period schedule does not fire.
C6_Witness ==
    /\ AfterUpdate /\ last.training /\ last.ready /\ last.size > 0
    /\ last.period_called /\ ~last.period_fired /\ ~last.trained
    /\ calls.trained = 1

\* C7: in training mode, while the learn-start schedule is off, act() uses
\* epsilon = 1.0 and returns the drawn action, whatever the epsilon schedule
\* holds.
C7_ExplorationFloor ==
    (AfterAct /\ last.training /\ ~last.ready) =>
        /\ last.epsilon = EpsScale
        /\ last.random
        /\ env.action = last.drawn

\* C7 happens: the schedule holds less than 1.0 and the action returned is not
\* the argmax.
C7_Witness ==
    /\ AfterAct /\ last.training /\ ~last.ready
    /\ epsilon_schedule < EpsScale
    /\ env.action = last.drawn
    /\ env.action # last.greedy

\* C8: an evaluation-mode update() leaves the replay buffer, both networks and
\* the schedules as they were; only episode_start and, in DRQNhiddenAgent on
\* done = True, the live hidden state may change.
C8_EvalUpdateFrame ==
    [][ (UpdateStep /\ ~training) =>
            /\ UNCHANGED << replay_buffer, qnet, target_qnet, learn_schedule,
                            update_period_schedule, target_net_update_schedule,
                            epsilon_schedule, prev_hidden_state, prev_cell_state,
                            training >>
            /\ (IsBaseline \/ ~last'.done) => hidden_state' = hidden_state ]_vars

\* C8 happens: an evaluation-mode update() with done = True on an agent whose
\* buffer is not empty.
C8_Witness ==
    /\ AfterUpdate /\ ~last.training /\ last.done
    /\ replay_buffer.num_added > 0
    /\ ~last.added

\* C9: every training-mode update() adds one transition, its own, before it
\* samples, whatever done is and whether or not it trains; n calls add n.
C9_OneAddPerUpdate ==
    /\ replay_buffer.num_added = calls.updates
    /\ (AfterUpdate /\ last.training) =>
           /\ last.added
           /\ Len(replay_buffer.items) >= 1
           /\ Stored.done = last.done
           /\ last.size = ReplaySize(replay_buffer.items)

\* C9 happens: the second or a later addition, of a transition with done set,
\* in a call that does not train.
C9_Witness ==
    /\ AfterUpdate /\ last.training /\ last.done /\ ~last.sampled
    /\ replay_buffer.num_added >= 2
    /\ replay_buffer.num_added = calls.updates

\* C10: with reward_clip = c, every reward handed to add() lies in [-c, c],
\* and a reward already in that range is stored as it is.
C10_RewardClipped ==
    reward_clip # <<>> =>
        /\ \A i \in 1..Len(replay_buffer.items) :
               /\ 0 - reward_clip[1] <= replay_buffer.items[i].reward
               /\ replay_buffer.items[i].reward <= reward_clip[1]
        /\ (AfterUpdate /\ last.added
              /\ 0 - reward_clip[1] <= last.reward_in
              /\ last.reward_in <= reward_clip[1])
               => Stored.reward = last.reward_in

\* C10 happens: a reward below -c is stored as -c.
C10_Witness ==
    /\ reward_clip # <<>>
    /\ AfterUpdate /\ last.added
    /\ last.reward_in < 0 - reward_clip[1]
    /\ Stored.reward = 0 - reward_clip[1]

\* C11: every act() call, in training or evaluation mode, on the exploratory
\* and on the greedy branch, leaves as the live hidden state the state the
\* online network's forward step returned for the observation and the live
\* state on entry.
C11_ActAdvancesHidden ==
    AfterAct => hidden_state = lstm_forward(qnet, env.observation, entry_hidden)

\* An evaluation-mode act() on the exploratory branch moved the live state.
C11_Witness ==
    /\ AfterAct
    /\ ~last.training
    /\ last.random
    /\ hidden_state # entry_hidden

\* C12: with a hard target update, right after an update() in which the
\* target-update schedule fired, the target parameters equal the online
\* parameters as that call left them, its optimizer step included.
C12_HardSyncCopiesOnline ==
    (AfterUpdate /\ last.target_fired) => target_qnet = qnet

\* One update() trained, moved the online parameters and then synchronized.
C12_Witness ==
    /\ AfterUpdate
    /\ last.trained
    /\ last.target_fired
    /\ qnet = 1
    /\ target_qnet = 1

\* C14: the action every act() returns is an integer a with 0 <= a < act_dim,
\* on the exploratory branch and on the greedy branch.
C14_ActionInRange ==
    AfterAct => (env.action \in Int /\ 0 <= env.action /\ env.action < act_dim)

\* A greedy act() returned the highest action index.
C14_Witness ==
    /\ AfterAct
    /\ ~last.random
    /\ env.action = act_dim - 1

\* C18: an update() with done = False leaves the live hidden state as it was,
\* whether or not a training step ran in it: the training step starts from
\* states of its own and does not write the live one.
C18_TrainingKeepsLiveHidden ==
    [][(UpdateStep /\ ~last'.done) => hidden_state' = hidden_state]_vars

\* A training step ran in an update() with done = False while the live state
\* was not the zero state.
C18_Witness ==
    /\ AfterUpdate
    /\ last.trained
    /\ ~last.done
    /\ hidden_state # init_hidden

\* C19: every training-mode update() advances the target-update schedule
\* exactly once, whether or not its training step ran and before learning has
\* started, and synchronizes the target network iff the schedule fires.
C19_TargetScheduleEveryUpdate ==
    [][(UpdateStep /\ training) =>
          /\ target_net_update_schedule'
                 = PeriodicUpdate(target_net_update_schedule, target_period)
          /\ last'.target_called
          /\ last'.target_fired = PeriodicValue(target_net_update_schedule')
          /\ last'.target_fired => target_qnet' = qnet'
          /\ ~last'.target_fired => target_qnet' = target_qnet]_vars

\* The schedule was advanced, without firing, by an update() that came before
\* learning had started and ran no training step.
C19_Witness ==
    /\ AfterUpdate
    /\ last.training
    /\ ~last.ready
    /\ ~last.trained
    /\ last.target_called
    /\ ~last.target_fired
    /\ calls.updates = 2

\* C20: the update-period schedule is advanced by exactly the update() calls
\* made in training mode with the learn-start schedule on and size() > 0;
\* updates before learning has started, evaluation-mode updates and act()
\* leave it alone.
C20_PeriodAdvancesIffReady ==
    [][/\ (UpdateStep /\ training /\ last'.ready /\ last'.size > 0)
            => /\ last'.period_called
               /\ update_period_schedule'
                      = PeriodicUpdate(update_period_schedule, update_period)
       /\ ~(UpdateStep /\ training /\ last'.ready /\ last'.size > 0)
            => /\ UpdateStep => ~last'.period_called
               /\ update_period_schedule' = update_period_schedule]_vars

\* A training-mode update() found sequences in the buffer before learning had
\* started and left the update-period schedule at its initial count.
C20_Witness ==
    /\ AfterUpdate
    /\ last.training
    /\ ~last.ready
    /\ last.size > 0
    /\ ~last.period_called
    /\ update_period_schedule = PeriodicInit(update_period)

C16_ConstructorForwards ==
    (aux.kind = "ctor" /\ aux.called) =>
        /\ ~aux.raised
        /\ \A i \in 1..Len(DRQNAgent_init_params) :
              /\ i <= Len(aux.bound)
              /\ aux.bound[i]
                     = aux.received[IndexOf(DRQNAgent_init_params[i],
                                            DRQNhiddenAgent_init_params)]

\* The snapshot stored with the first transition of sampled sequence b.
FirstSnapshot(b) ==
    << aux.buffer[aux.starts[b]].hidden_state, aux.buffer[aux.starts[b]].cell_state >>

\* The snapshot stored with the transition after the first one of sequence b.
SecondSnapshot(b) ==
    << aux.buffer[aux.starts[b] + 1].hidden_state,
       aux.buffer[aux.starts[b] + 1].cell_state >>

\* C15 as stated: in a training step of the persisting variant the initial
\* state given to the online network and the one given to the target network
\* are, for each sampled sequence, the snapshot stored with that sequence's
\* first transition.
C15_BothFromFirstSnapshot ==
    (aux.kind = "batch" /\ aux.trained) =>
        \A b \in 1..batch_size :
            /\ aux.hidden[b] = FirstSnapshot(b)
            /\ aux.target_hidden[b] = FirstSnapshot(b)

\* C15 amended: the online network is given the snapshot stored with the
\* sequence's first transition; the target network is given the first
\* timestep's next_hidden_state/next_cell_state, the snapshot stored with the
\* transition that follows the first one.
C15_OnlineFirstTargetNext ==
    (aux.kind = "batch" /\ aux.trained) =>
        \A b \in 1..batch_size :
            /\ aux.hidden[b] = FirstSnapshot(b)
            /\ aux.target_hidden[b] = SecondSnapshot(b)

\* A training step on two different sequences whose first two snapshots
\* differ: the two networks started from different states.
C15_Witness ==
    /\ aux.kind = "batch"
    /\ aux.trained
    /\ aux.starts[1] # aux.starts[2]
    /\ \A b \in 1..batch_size :
          /\ FirstSnapshot(b) # SecondSnapshot(b)
          /\ aux.hidden[b] = FirstSnapshot(b)
          /\ aux.target_hidden[b] = SecondSnapshot(b)

\* An update() call of either loop (a switch of loops makes no call).
SharedUpdateStep == aux.kind = "shared" /\ calls'.updates = calls.updates + 1

\* C17 as stated: when two environment loops share one persisting-variant
\* agent and their calls are serialized in any order, every stored transition
\* carries the hidden state that preceded the act() which produced that
\* transition's action.
C17_SharedStoresOwnEntry ==
    [][SharedUpdateStep =>
          << Stored'.hidden_state, Stored'.cell_state >> = entry_hidden]_vars

\* C17 amended: the stored transition carries the hidden state that preceded
\* the most recent act() on the agent, whichever loop made it; that is the
\* state preceding the act() which produced the transition's action when no
\* act() of the other loop ran between that act() and its update().
C17_SharedStoresMostRecentEntry ==
    [][SharedUpdateStep =>
          /\ << Stored'.hidden_state, Stored'.cell_state >> = aux.recent_entry
          /\ aux.clean =>
                << Stored'.hidden_state, Stored'.cell_state >> = entry_hidden]_vars

\* A loop stored its own entry state while the other loop, whose snapshot it
\* had overwritten, was still waiting to call update().
C17_Witness ==
    /\ aux.kind = "shared"
    /\ AfterUpdate
    /\ pc = "act"
    /\ aux.pc = "update"
    /\ aux.clean
    /\ ~aux.other_clean
    /\ << Stored.hidden_state, Stored.cell_state >> = entry_hidden
    /\ entry_hidden # init_hidden

\* C21: act() never advances the learn-start schedule; it advances the epsilon
\* schedule, once, iff the agent is in training mode and the learn-start
\* schedule is on, and then uses the value returned; in evaluation mode it
\* touches no schedule and uses epsilon = test_epsilon.
C21_ActSchedules ==
    [][ActStep =>
          /\ learn_schedule' = learn_schedule
          /\ (training /\ SwitchValue(learn_schedule)) =>
                /\ epsilon_schedule' = EpsilonUpdate(epsilon_schedule)
                /\ last'.epsilon = epsilon_schedule'
          /\ ~(training /\ SwitchValue(learn_schedule)) =>
                epsilon_schedule' = epsilon_schedule
          /\ ~training =>
                /\ last'.epsilon = test_epsilon
                /\ UNCHANGED << update_period_schedule,
                                target_net_update_schedule >>]_vars

\* The first act() after learning started took the epsilon schedule one step
\* down and used the new value.
C21_Witness ==
    /\ AfterAct
    /\ last.training
    /\ last.ready
    /\ calls.updates = 1
    /\ epsilon_schedule = epsilon_init - 1
    /\ last.epsilon = epsilon_schedule

\* C22: in the persisting variant, the transition stored for the first step
\* after construction and for the first step after an update() with
\* done = True, made in training or in evaluation mode, carries all-zero
\* hidden_state and cell_state snapshots.
C22_FreshEpisodeStoresZero ==
    [][(IsHidden /\ UpdateStep /\ last.fresh /\ last'.added) =>
          (Stored'.hidden_state = 0 /\ Stored'.cell_state = 0)]_vars

\* The second step's transition was stored with zero snapshots after a first
\* step whose update() ran in evaluation mode with done = True.
C22_Witness ==
    /\ IsHidden
    /\ AfterUpdate
    /\ last.added
    /\ steps = 2
    /\ calls.updates = 1
    /\ Stored.hidden_state = 0
    /\ Stored.cell_state = 0

\* C24: the episode_start flag is set to True by every update() whose
\* transition has done = True, and set back to False by the first later act()
\* made in training mode while the logger's should_log is true; no other
\* operation changes it.
C24_EpisodeStartFlag ==
    [][/\ UpdateStep =>
            episode_start' = (IF last'.done THEN TRUE ELSE episode_start)
       /\ ActStep =>
            episode_start' = (episode_start /\ ~(training /\ last'.should_log))
       /\ ~(UpdateStep \/ ActStep) => episode_start' = episode_start]_vars

\* The first act() after an update() with done = True logged in training mode
\* and cleared the flag that update() had raised.
C24_Witness ==
    /\ AfterAct
    /\ last.fresh
    /\ steps = 2
    /\ last.training
    /\ last.should_log
    /\ ~episode_start

\* The largest Q-value the target network gives position k of sequence b.
TargetMax(b, k) ==
    LET vals == sequence_qvals(aux.t, aux.next_observation[b], init_hidden)[k]
    IN  CHOOSE m \in { vals[a] : a \in 1..act_dim } :
            \A a \in 1..act_dim : vals[a] <= m

\* C23: for every position of every sampled sequence the training target is
\* reward + discount_rate * (maximum over the actions of the target network's
\* Q-values for the next observation) * (1 - done): the reward alone when done
\* is set, and the maximum is over the target network's values.
C23_TDTarget ==
    (aux.kind = "target" /\ aux.computed) =>
        \A b \in 1..batch_size : \A k \in 1..max_seq_len :
            aux.q_targets[b][k] =
                IF aux.done[b][k] = 1 THEN DiscountScale * aux.reward[b][k]
                ELSE DiscountScale * aux.reward[b][k] + discount_rate * TargetMax(b, k)

\* A batch with a finished and an unfinished position, the two networks
\* apart, and a position where the online network's maximum is another one.
C23_Witness ==
    /\ aux.kind = "target"
    /\ aux.computed
    /\ aux.q # aux.t
    /\ aux.done[1][1] = 1
    /\ aux.q_targets[1][1] = DiscountScale * aux.reward[1][1]
    /\ aux.done[1][2] = 0
    /\ aux.q_targets[1][2] # DiscountScale * aux.reward[1][2]
    /\ max_over_actions(sequence_qvals(aux.q, aux.next_observation[1],
                                       init_hidden)[2]) # TargetMax(1, 2)

\* What the two runs must agree on: the action returned, the live hidden
\* state, the replay buffer, the schedules and the network parameters.
TwinsAgree ==
    /\ env = aux.twin.env
    /\ hidden_state = aux.twin.hidden_state
    /\ replay_buffer = aux.twin.replay_buffer
    /\ learn_schedule = aux.twin.learn_schedule
    /\ update_period_schedule = aux.twin.update_period_schedule
    /\ target_net_update_schedule = aux.twin.target_net_update_schedule
    /\ epsilon_schedule = aux.twin.epsilon_schedule
    /\ qnet = aux.twin.qnet
    /\ target_qnet = aux.twin.target_qnet

\* C25: two runs of the same act()/update() call sequence with the same
\* inputs, random draws, schedules and replay samples but different logger
\* answers return the same actions and have the same live hidden states,
\* replay buffer contents, schedule states and network parameters; only what
\* is logged and the episode_start flag may differ.
C25_LoggerDoesNotInterfere ==
    (aux.kind = "twin" /\ aux.phase = "lead") => TwinsAgree

\* After a training step the two runs agree although the logger's answers
\* left their episode_start flags apart.
C25_Witness ==
    /\ aux.kind = "twin"
    /\ aux.phase = "lead"
    /\ last.trained
    /\ aux.twin.last.trained
    /\ episode_start # aux.twin.episode_start
    /\ TwinsAgree

InList(list, message) == \E i \in DOMAIN list : list[i] = message

\* C26: ActivationCheck.run does not alter the model it inspects: after any
\* number of run() calls the model carries the forward hooks it had before the
\* first call.
C26_HooksUnchanged ==
    aux.kind = "activation" => aux.forward_hooks = 0

\* C27: on a model with at least one activation layer every run() call
\* returns a list of messages and does not raise, also on iterations where
\* the periodic check is due and on later calls for the same layer.
C27_RunReturnsList ==
    (aux.kind = "activation" /\ aux.layers >= 1 /\ aux.iteration_number > 0)
        => aux.raised = "none"

\* C28: with the Range check enabled, check_activations_range appends
\* 'act_ltn' iff some activation value is below the minimum bound and
\* 'act_gtn' iff some value is above the maximum bound.
C28_RangeMessages ==
    (aux.kind = "activation" /\ ~aux.range_disabled /\ aux.range_checked # << >>) =>
        /\ InList(aux.range_msg, "act_ltn")
               <=> \E i \in DOMAIN aux.range_checked :
                       /\ isfinite(aux.range_checked[i])
                       /\ aux.range_checked[i] < acts_min_bound
        /\ InList(aux.range_msg, "act_gtn")
               <=> \E i \in DOMAIN aux.range_checked :
                       /\ isfinite(aux.range_checked[i])
                       /\ aux.range_checked[i] > acts_max_bound

\* C29: the list OverfitBiasCheck.run(biases) returns holds only the messages
\* about the biases of that call, so a run on healthy biases returns an empty
\* list even after an earlier run reported a problem.
C29_ReturnsOwnMessages ==
    (aux.kind = "overfit" /\ aux.runs > 0 /\ aux.raised = "none") =>
        /\ aux.returned = aux.own_msg
        /\ (~any_isinf(aux.bias_array) /\ ~any_isnan(aux.bias_array))
               => aux.returned = << >>

\* Every column of a status that is set is True.
AllShown(status) == status # << >> /\ \A j \in DOMAIN status : status[j]

\* One status never goes from True back to False or None.
Monotone(before, after) ==
    before # << >> =>
        /\ after # << >>
        /\ \A j \in DOMAIN before : before[j] => after[j]

\* C30: the three output status flags are monotone over runs; 'out_cons' is
\* reported only at a periodic output check, and only from the fifth such
\* check at which some column has still never shown non-zero variance; once
\* every column has shown it, the patience is restored to 5 at the periodic
\* checks and 'out_cons' is not reported again.
C30_OutputStatusAndPatience ==
    [][aux.kind = "activation" =>
          /\ Monotone(aux.outputs_metadata.non_zero_variance.status,
                      aux'.outputs_metadata.non_zero_variance.status)
          /\ Monotone(aux.outputs_metadata.max_abs_greater_than_one.status,
                      aux'.outputs_metadata.max_abs_greater_than_one.status)
          /\ Monotone(aux.outputs_metadata.can_be_negative.status,
                      aux'.outputs_metadata.can_be_negative.status)
          /\ InList(aux'.error_msg, "out_cons")
                => (aux'.checked /\ aux'.stuck_checks >= 5)
          /\ AllShown(aux'.outputs_metadata.non_zero_variance.status)
                => /\ ~InList(aux'.error_msg, "out_cons")
                   /\ (aux'.checked /\ ~InList(aux'.error_msg, "out_nan"))
                         => aux'.outputs_metadata.non_zero_variance.patience
                                = initial_patience]_vars

\* 'out_cons' was reported for the first time, at the fifth periodic check
\* that found a column without variance.
C30_Witness ==
    /\ aux.kind = "activation"
    /\ aux.checked
    /\ aux.stuck_checks = 5
    /\ InList(aux.error_msg, "out_cons")
    /\ aux.outputs_metadata.non_zero_variance.patience = 0
    /\ \E j \in DOMAIN aux.outputs_metadata.non_zero_variance.status :
          aux.outputs_metadata.non_zero_variance.status[j]

\* C31: BiasCheck.run returns exactly the 'need_bias' message when the model
\* has no biases, an empty list when it has biases and every bias element is
\* zero, and exactly the 'zero_bias' message when some bias element is
\* non-zero.
C31_BiasMessages ==
    (aux.kind = "bias" /\ aux.runs > 0) =>
        aux.returned =
            IF aux.initial_biases = << >> THEN <<"need_bias">>
            ELSE IF \A i \in DOMAIN aux.initial_biases :
                        \A j \in DOMAIN aux.initial_biases[i] :
                            aux.initial_biases[i][j] = 0
            THEN << >>
            ELSE <<"zero_bias">>

\* C32: for a Chomp container and any sequence of set, get and remove
\* operations, a read of a name returns the value last written to it with
\* c[name] = v or c.name = v, until the name is overwritten or removed, and a
\* read of a name that was never set, or was removed, returns None instead of
\* raising.
C32_ReadsReturnLastWrite ==
    (aux.kind = "chomp" /\ aux.last.op = "read") =>
        /\ aux.last.raised = "none"
        /\ aux.last.result = aux.written[aux.last.name]

====
